---- MODULE Spec2Model ----
(***************************************************************************)
(* Type inference pass of the Hermes optimizer                             *)
(* (lib/Optimizer/Scalar/TypeInference.cpp).                               *)
(*                                                                         *)
(* The module models the pass as a state machine over a small IR module:   *)
(* runOnModule visits the functions in order, and runOnFunction clears the *)
(* types, infers the parameters, iterates the per-instruction transfer     *)
(* functions to a fixed point and intersects the result with the pre-pass  *)
(* types.  The transfer functions are operators computed as the code       *)
(* computes them.                                                          *)
(***************************************************************************)
EXTENDS Naturals, Sequences, FiniteSets, TLC

(***************************************************************************)
(* The type lattice.  hermes::Type lives in hermes/IR/IR.h, which is not   *)
(* part of the sources at hand: a Type is modelled as the set of its       *)
(* primitive tags, as the specification describes it.                      *)
(***************************************************************************)
Tags ==
  {"Empty", "Undefined", "Null", "Boolean", "String", "Number", "BigInt",
   "Object", "Environment", "Closure", "RegExp", "Arguments", "Array",
   "Symbol"}

AnyType == Tags
NoType == {}
Undefined == {"Undefined"}
Boolean == {"Boolean"}
String == {"String"}
Number == {"Number"}
BigInt == {"BigInt"}
Object == {"Object"}
Environment == {"Environment"}
\* Int32 and Uint32 are refinements of Number: the tag set has no tag of
\* their own, so they carry the Number tag.
Int32 == Number
Uint32 == Number

unionTy(a, b) == a \cup b
intersectTy(a, b) == a \cap b
isNoType(t) == t = NoType
isAnyType(t) == t = AnyType
isNumberType(t) == t = Number
isBigIntType(t) == t = BigInt
isStringType(t) == t = String
canBeBigInt(t) == "BigInt" \in t
canBeString(t) == "String" \in t
\* No tag whose implicit conversion to a string or a number can run user
\* code: the object tags are excluded.
isSideEffectFree(t) ==
  t \cap {"Object", "Closure", "RegExp", "Arguments", "Array"} = {}

(***************************************************************************)
(* Transfer functions of the unary and binary operators.                   *)
(***************************************************************************)
UnaryArithKinds == {"UnaryIncInst", "UnaryDecInst", "UnaryMinusInst"}
UnaryKinds ==
  UnaryArithKinds \cup
  {"UnaryVoidInst", "UnaryTypeofInst", "UnaryTildeInst", "UnaryBangInst"}

CompareKinds ==
  {"BinaryEqualInst", "BinaryNotEqualInst", "BinaryStrictlyEqualInst",
   "BinaryStrictlyNotEqualInst", "BinaryLessThanInst",
   "BinaryLessThanOrEqualInst", "BinaryGreaterThanInst",
   "BinaryGreaterThanOrEqualInst", "BinaryInInst", "BinaryInstanceOfInst"}
ArithKinds ==
  {"BinaryDivideInst", "BinaryMultiplyInst", "BinaryExponentiationInst",
   "BinarySubtractInst", "BinaryLeftShiftInst", "BinaryRightShiftInst"}
BitwiseKinds == {"BinaryAndInst", "BinaryOrInst", "BinaryXorInst"}
BinaryKinds ==
  CompareKinds \cup ArithKinds \cup BitwiseKinds \cup
  {"BinaryModuloInst", "BinaryUnsignedRightShiftInst", "BinaryAddInst"}

inferUnaryArith_NoBigInt(opTy, numberResultType) ==
  IF isNumberType(opTy) THEN numberResultType
  ELSE IF isBigIntType(opTy) THEN BigInt
  ELSE numberResultType

inferUnaryArith(opTy, numberResultType) ==
  IF isNumberType(opTy) THEN numberResultType
  ELSE IF isBigIntType(opTy) THEN BigInt
  ELSE unionTy(numberResultType,
               IF canBeBigInt(opTy) THEN BigInt ELSE NoType)

inferUnaryArithDefault(opTy) == inferUnaryArith(opTy, Number)

inferTilde(opTy) == inferUnaryArith(opTy, Int32)

inferUnaryOperatorInst(kind, opTy) ==
  CASE kind = "UnaryVoidInst" -> Undefined
    [] kind = "UnaryTypeofInst" -> String
    [] kind \in UnaryArithKinds -> inferUnaryArithDefault(opTy)
    [] kind = "UnaryTildeInst" -> inferTilde(opTy)
    [] kind = "UnaryBangInst" -> Boolean

inferBinaryArith_EitherBigInt(LeftTy, RightTy, numberType) ==
  IF isNumberType(LeftTy) /\ isNumberType(RightTy) THEN numberType
  ELSE IF isBigIntType(LeftTy) /\ isBigIntType(RightTy) THEN BigInt
  ELSE unionTy(numberType,
               IF canBeBigInt(LeftTy) \/ canBeBigInt(RightTy)
               THEN BigInt ELSE NoType)

inferBinaryArith(LeftTy, RightTy, numberType) ==
  IF isNumberType(LeftTy) /\ isNumberType(RightTy) THEN numberType
  ELSE IF isBigIntType(LeftTy) /\ isBigIntType(RightTy) THEN BigInt
  ELSE unionTy(numberType,
               IF canBeBigInt(LeftTy) /\ canBeBigInt(RightTy)
               THEN BigInt ELSE NoType)

inferBinaryBitwise_NoBigInt(LeftTy, RightTy) == Int32

inferBinaryBitwise(LeftTy, RightTy) ==
  unionTy(Int32,
          IF canBeBigInt(LeftTy) /\ canBeBigInt(RightTy)
          THEN BigInt ELSE NoType)

inferBinaryAdd_NumberFirst(LeftTy, RightTy) ==
  IF isNumberType(LeftTy) /\ isNumberType(RightTy) THEN Number
  ELSE IF isBigIntType(LeftTy) /\ isBigIntType(RightTy) THEN BigInt
  ELSE LET mayBeBigInt == IF canBeBigInt(LeftTy) /\ canBeBigInt(RightTy)
                          THEN BigInt ELSE NoType
           numeric == unionTy(Number, mayBeBigInt)
       IN  IF isSideEffectFree(LeftTy) /\ isSideEffectFree(RightTy)
              /\ ~canBeString(LeftTy) /\ ~canBeString(RightTy)
           THEN numeric
           ELSE unionTy(numeric, String)

inferBinaryAdd(LeftTy, RightTy) ==
  IF isStringType(LeftTy) \/ isStringType(RightTy) THEN String
  ELSE IF isNumberType(LeftTy) /\ isNumberType(RightTy) THEN Number
  ELSE IF isBigIntType(LeftTy) /\ isBigIntType(RightTy) THEN BigInt
  ELSE LET mayBeBigInt == IF canBeBigInt(LeftTy) /\ canBeBigInt(RightTy)
                          THEN BigInt ELSE NoType
           numeric == unionTy(Number, mayBeBigInt)
       IN  IF isSideEffectFree(LeftTy) /\ isSideEffectFree(RightTy)
              /\ ~canBeString(LeftTy) /\ ~canBeString(RightTy)
           THEN numeric
           ELSE unionTy(numeric, String)

inferBinaryInst(kind, LeftTy, RightTy) ==
  CASE kind \in CompareKinds -> Boolean
    [] kind \in ArithKinds -> inferBinaryArith(LeftTy, RightTy, Number)
    [] kind = "BinaryModuloInst" -> inferBinaryArith(LeftTy, RightTy, Int32)
    [] kind = "BinaryUnsignedRightShiftInst" -> Uint32
    [] kind = "BinaryAddInst" -> inferBinaryAdd(LeftTy, RightTy)
    [] kind \in BitwiseKinds -> inferBinaryBitwise(LeftTy, RightTy)
    [] OTHER -> AnyType

(***************************************************************************)
(* The IR under analysis.  A module is a list of functions; a function has *)
(* its instructions in program order, its dynamic parameters and the       *)
(* variables of its function scope.  An instruction is a record of its     *)
(* name, its kind, its operands and, for a call, the functions the call    *)
(* graph knows it may call.                                                *)
(***************************************************************************)
Inst(id, kind, ops, callees) ==
  [id |-> id, kind |-> kind, ops |-> ops, callees |-> callees]

\* "propX" and "propY" are the literal strings that name two properties.
Literals == {"litNum", "litStr", "litUndef", "propX", "propY"}
LitType(v) ==
  CASE v = "litNum" -> Number
    [] v = "litStr" -> String
    [] v = "litUndef" -> Undefined
    [] v \in {"propX", "propY"} -> String

ModuleNames ==
  {"loop", "phis", "mem", "calls", "rec", "gen", "stuck", "prop", "props",
   "late", "slots", "empty", "edge", "nocallee"}

Funcs(m) ==
  CASE m = "calls" -> <<"F", "G">>
    [] m = "empty" -> <<>>
    [] OTHER -> <<"F">>

Body(m, f) ==
  CASE m = "loop" ->
         \* B0: br B1.  B1: phi = PHI(0, add); add = phi + 1; condbr B1, B2.
         \* B2: return phi.
         << Inst("F.br0", "BranchInst", <<>>, {}),
            Inst("F.phi", "PhiInst", <<"litNum", "F.add">>, {}),
            Inst("F.add", "BinaryAddInst", <<"F.phi", "litNum">>, {}),
            Inst("F.cbr", "CondBranchInst", <<"F.add">>, {}),
            Inst("F.ret", "ReturnInst", <<"F.phi">>, {}) >>
    [] m = "phis" ->
         \* Two PHIs feeding each other, one of them fed by a parameter.
         << Inst("F.lp", "LoadParamInst", <<"F.p0">>, {}),
            Inst("F.phi1", "PhiInst", <<"F.phi2", "litStr">>, {}),
            Inst("F.phi2", "PhiInst", <<"F.phi1", "F.neg">>, {}),
            Inst("F.neg", "UnaryMinusInst", <<"F.lp">>, {}),
            Inst("F.ret", "ReturnInst", <<"F.phi2">>, {}) >>
    [] m = "mem" ->
         \* A stack slot written twice and read once; two returns.
         << Inst("F.a", "AllocStackInst", <<>>, {}),
            Inst("F.lp", "LoadParamInst", <<"F.p0">>, {}),
            Inst("F.ss1", "StoreStackInst", <<"F.lp", "F.a">>, {}),
            Inst("F.ss2", "StoreStackInst", <<"litNum", "F.a">>, {}),
            Inst("F.ret0", "ReturnInst", <<"F.lp">>, {}),
            Inst("F.ls", "LoadStackInst", <<"F.a">>, {}),
            Inst("F.typeof", "UnaryTypeofInst", <<"F.ls">>, {}),
            Inst("F.ret", "ReturnInst", <<"F.typeof">>, {}) >>
    [] m = "calls" /\ f = "F" ->
         \* The global function creates G, calls it and keeps the result in
         \* a variable.
         << Inst("F.cf", "CreateFunctionInst", <<>>, {}),
            Inst("F.c", "CallInst", <<"F.cf", "litNum">>, {"G"}),
            Inst("F.sf", "StoreFrameInst", <<"F.c", "F.v">>, {}),
            Inst("F.lf", "LoadFrameInst", <<"F.v">>, {}),
            Inst("F.ret", "ReturnInst", <<"F.lf">>, {}) >>
    [] m = "calls" /\ f = "G" ->
         << Inst("G.lp", "LoadParamInst", <<"G.p0">>, {}),
            Inst("G.sw", "StoreFrameInst", <<"G.lp", "G.w">>, {}),
            Inst("G.lw", "LoadFrameInst", <<"G.w">>, {}),
            Inst("G.typeof", "UnaryTypeofInst", <<"G.lw">>, {}),
            Inst("G.ret", "ReturnInst", <<"G.typeof">>, {}) >>
    [] m = "rec" ->
         \* A function that calls its own parameter, which may be itself.
         << Inst("F.lp", "LoadParamInst", <<"F.p0">>, {}),
            Inst("F.rc", "CallInst", <<"F.lp", "F.lp">>, {"F"}),
            Inst("F.ret", "ReturnInst", <<"F.rc">>, {}) >>
    [] m = "gen" ->
         << Inst("F.rg", "ResumeGeneratorInst", <<>>, {}),
            Inst("F.ret", "ReturnInst", <<"litNum">>, {}) >>
    [] m = "stuck" ->
         \* A stack slot that is read and never written.
         << Inst("F.a", "AllocStackInst", <<>>, {}),
            Inst("F.ls", "LoadStackInst", <<"F.a">>, {}),
            Inst("F.ret", "ReturnInst", <<"F.ls">>, {}) >>
    [] m = "edge" ->
         \* A PHI without entries, and a PHI one of whose inputs never gets
         \* a type.
         << Inst("F.phi0", "PhiInst", <<>>, {}),
            Inst("F.phi", "PhiInst", <<"litNum", "F.ls">>, {}),
            Inst("F.a", "AllocStackInst", <<>>, {}),
            Inst("F.ls", "LoadStackInst", <<"F.a">>, {}),
            Inst("F.ret", "ReturnInst", <<"F.phi">>, {}) >>
    [] m = "nocallee" ->
         \* A call of undefined: the call graph knows that it has no
         \* callee.
         << Inst("F.c", "CallInst", <<"litUndef">>, {}),
            Inst("F.ret", "ReturnInst", <<"F.c">>, {}) >>
    [] m = "prop" ->
         \* o = {}; o.x = 42 (own); r = o.x; return r.
         << Inst("F.o", "AllocObjectInst", <<>>, {}),
            Inst("F.so", "StoreOwnPropertyInst",
                 <<"litNum", "F.o", "propX">>, {}),
            Inst("F.r", "LoadPropertyInst", <<"F.o", "propX">>, {}),
            Inst("F.ret", "ReturnInst", <<"F.r">>, {}) >>
    [] m = "props" ->
         \* x is stored twice, once with a value defined after the load,
         \* and y once.
         << Inst("F.o", "AllocObjectInst", <<>>, {}),
            Inst("F.r", "LoadPropertyInst", <<"F.o", "propX">>, {}),
            Inst("F.lp", "LoadParamInst", <<"F.p0">>, {}),
            Inst("F.typeof", "UnaryTypeofInst", <<"F.lp">>, {}),
            Inst("F.so", "StoreOwnPropertyInst",
                 <<"F.typeof", "F.o", "propX">>, {}),
            Inst("F.sp", "StorePropertyLooseInst",
                 <<"litNum", "F.o", "propX">>, {}),
            Inst("F.so2", "StoreOwnPropertyInst",
                 <<"litUndef", "F.o", "propY">>, {}),
            Inst("F.ret", "ReturnInst", <<"F.r">>, {}) >>
    [] m = "late" ->
         \* x is read before its only store, whose value is defined after
         \* the load; y is never stored; the last load has no known
         \* receiver.
         << Inst("F.q", "AllocObjectInst", <<>>, {}),
            Inst("F.r", "LoadPropertyInst", <<"F.q", "propX">>, {}),
            Inst("F.r3", "LoadPropertyInst", <<"F.q", "propY">>, {}),
            Inst("F.lp", "LoadParamInst", <<"F.p0">>, {}),
            Inst("F.r4", "LoadPropertyInst", <<"F.lp", "propX">>, {}),
            Inst("F.so", "StoreOwnPropertyInst",
                 <<"F.lp", "F.q", "propX">>, {}),
            Inst("F.ret", "ReturnInst", <<"F.r">>, {}) >>
    [] m = "slots" ->
         \* A stack slot with a user that is neither a load nor a store, a
         \* slot without users, and a variable read from the environment.
         << Inst("F.a", "AllocStackInst", <<>>, {}),
            Inst("F.b", "AllocStackInst", <<>>, {}),
            Inst("F.ss", "StoreStackInst", <<"litNum", "F.a">>, {}),
            Inst("F.mov", "MovInst", <<"F.a">>, {}),
            Inst("F.env", "HBCCreateEnvironmentInst", <<>>, {}),
            Inst("F.sf", "StoreFrameInst", <<"litStr", "F.u">>, {}),
            Inst("F.le", "HBCLoadFromEnvironmentInst",
                 <<"F.env", "F.u">>, {}),
            Inst("F.tie", "ThrowIfEmptyInst", <<"F.mov">>, {}),
            Inst("F.ret", "ReturnInst", <<"F.tie">>, {}) >>

JSDynamicParams(m, f) ==
  CASE m \in {"phis", "mem", "rec", "props", "late"} -> <<"F.p0">>
    [] m = "calls" /\ f = "G" -> <<"G.p0", "G.p1">>
    [] OTHER -> <<>>

Variables(m, f) ==
  CASE m = "calls" /\ f = "F" -> {"F.v"}
    [] m = "calls" /\ f = "G" -> {"G.w"}
    [] m = "slots" -> {"F.u"}
    [] OTHER -> {}

isGlobalScope(m, f) == m = "calls" /\ f = "F"

isGeneratorInner(m, f) == m = "gen"

Range(s) == {s[i] : i \in 1..Len(s)}
FuncSet(m) == Range(Funcs(m))
Insts(m, f) == Range(Body(m, f))
AllInsts(m) == UNION {Insts(m, f) : f \in FuncSet(m)}
InstIds(m, f) == {i.id : i \in Insts(m, f)}
\* The values runOnFunction(f) annotates: f's instructions, f itself, its
\* parameters and the variables of its scope.
ValuesOf(m, f) ==
  InstIds(m, f) \cup {f} \cup Range(JSDynamicParams(m, f)) \cup Variables(m, f)
AllValues(m) == UNION {ValuesOf(m, f) : f \in FuncSet(m)}
InstOf(m, id) == CHOOSE i \in AllInsts(m) : i.id = id
isInst(m, v) == \E i \in AllInsts(m) : i.id = v
Users(m, v) == {i \in AllInsts(m) : v \in Range(i.ops)}

\* Instruction kinds without an output: stores, terminators and the like.
NoOutputKinds ==
  {"StoreStackInst", "StoreFrameInst", "StoreOwnPropertyInst",
   "StoreNewOwnPropertyInst", "StorePropertyLooseInst",
   "StorePropertyStrictInst", "BranchInst", "CondBranchInst", "ReturnInst",
   "ThrowInst", "SwitchInst", "DebuggerInst", "UnreachableInst",
   "TryStartInst", "TryEndInst", "DeclareGlobalVarInst"}
hasOutput(kind) == kind \notin NoOutputKinds

\* Kinds whose type is fixed by the kind itself.
InherentKinds == {"CreateFunctionInst", "AllocArrayInst"}
getInherentType(kind) ==
  CASE kind = "CreateFunctionInst" -> {"Closure"}
    [] kind = "AllocArrayInst" -> {"Array"}

(***************************************************************************)
(* The call graph provider: it either knows all the call sites of a        *)
(* function (the calls of the module that name it) and all the callees of  *)
(* a call, or reports them unknown.                                        *)
(***************************************************************************)
CallKinds == {"CallInst", "ConstructInst"}
CallIds(m) == {i.id : i \in {j \in AllInsts(m) : j.kind \in CallKinds}}
getKnownCallsites(m, f) ==
  {i \in AllInsts(m) : i.kind \in CallKinds /\ f \in i.callees}
ParamFuncs(m) == {f \in FuncSet(m) : Len(JSDynamicParams(m, f)) > 0}

\* The receiver analysis: the receivers of a property load are the object
\* allocations its object operand may be, the stores of a receiver are the
\* property stores whose object it is; either may be reported unknown.
LoadPropertyIds(m) ==
  {i.id : i \in {j \in AllInsts(m) : j.kind = "LoadPropertyInst"}}
AllocObjectIds(m) ==
  {i.id : i \in {j \in AllInsts(m) : j.kind = "AllocObjectInst"}}
StoreOwnPropertyKinds == {"StoreOwnPropertyInst", "StoreNewOwnPropertyInst"}
StorePropertyKinds == {"StorePropertyLooseInst", "StorePropertyStrictInst"}
getKnownReceivers(m, inst) == {inst.ops[1]} \cap AllocObjectIds(m)
getKnownStores(m, R) ==
  {S \in Users(m, R) :
     S.kind \in StoreOwnPropertyKinds \cup StorePropertyKinds /\ S.ops[2] = R}

(***************************************************************************)
(* Bounds of the model.                                                    *)
(***************************************************************************)
\* Invocations of runOnModule on the same module.
MaxRuns == 3
\* The count of fixed-point iterations of one runOnFunction stops here.
MaxIter == 4
\* Values whose pre-pass type is narrower than AnyType.
MaxNarrowed == 1
\* The statistics UniquePropertyValue and NumTI are counted up to here.
MaxCount == 4
\* The narrow pre-pass types.
NarrowTypes == {Number, String}

VARIABLES
  mod,            \* the module under analysis
  rev,            \* whether the module lists its functions in reverse
  unkSites,       \* functions whose call sites the call graph does not know
  unkCallees,     \* calls whose callees the call graph does not know
  unkReceivers,   \* property loads whose receivers it does not know
  unkStores,      \* receivers whose stores it does not know
  defTy,          \* the value of a default-constructed Type
  ty,             \* the type annotation of every value
  prePassTypes,   \* prePassTypes_
  pc,             \* where the pass stands
  run,            \* invocations of runOnModule so far
  fi,             \* index of the function runOnFunction works on
  ii,             \* index of the next instruction of the sweep
  localChanged,   \* localChanged of runOnFunction
  iter,           \* iterations of the do-while loop of this runOnFunction
  entryTy,        \* the annotations when runOnFunction was entered
  hist,           \* the annotations at the end of each runOnModule
  UniquePropertyValue,  \* the statistic of that name
  NumTI,          \* the statistic of that name
  changed,        \* changed of runOnModule
  moduleEntryTy,  \* the annotations when runOnModule was entered
  opKind, opL, opR, opRes   \* one application of an operator rule

\* What the pass is given: the module and the answers of the call graph.
inputVars ==
  <<mod, rev, unkSites, unkCallees, unkReceivers, unkStores, defTy>>
\* What runOnModule counts and returns.
resultVars == <<UniquePropertyValue, NumTI, changed, moduleEntryTy>>
passVars ==
  <<inputVars, ty, prePassTypes, pc, run, fi, ii, localChanged, iter,
    entryTy, hist, resultVars>>
opVars == <<opKind, opL, opR, opRes>>
vars == <<passVars, opVars>>

\* The functions in the order runOnModule visits them.
Order ==
  IF rev THEN [i \in 1..Len(Funcs(mod)) |->
                 Funcs(mod)[Len(Funcs(mod)) + 1 - i]]
  ELSE Funcs(mod)
F == Order[fi]
\* The call graph provider.
cgp ==
  [callees |-> unkCallees, receivers |-> unkReceivers, stores |-> unkStores]
getType(t, v) == IF v \in Literals THEN LitType(v) ELSE t[v]

(***************************************************************************)
(* Memory locations.                                                       *)
(***************************************************************************)
inferMemoryLocationType_IgnoreOthers(m, t, addr) ==
  UNION {getType(t, u.ops[1]) :
           u \in {w \in Users(m, addr) :
                    w.kind \in {"StoreFrameInst", "StoreStackInst"}}}

inferMemoryLocationType(m, t, addr) ==
  LET users == Users(m, addr)
      stores == {u \in users : u.kind \in {"StoreFrameInst", "StoreStackInst"}}
      loads == {u \in users : u.kind \in {"LoadFrameInst", "LoadStackInst"}}
  IN  IF users \ (stores \cup loads) # {} THEN AnyType
      ELSE UNION {getType(t, u.ops[1]) : u \in stores}

\* The annotations after inferMemoryType(V) and what it returns.
inferMemoryType(m, t, V) ==
  LET T == inferMemoryLocationType(m, t, V)
  IN  IF T # t[V] THEN [ty |-> [t EXCEPT ![V] = T], changed |-> TRUE]
      ELSE [ty |-> t, changed |-> FALSE]

\* The annotations after inferMemoryType on every variable of the set, and
\* inferredVarType.
RECURSIVE inferMemoryTypes(_, _, _, _)
inferMemoryTypes(m, t, vs, inferredVarType) ==
  IF vs = {} THEN [ty |-> t, changed |-> inferredVarType]
  ELSE LET V == CHOOSE x \in vs : TRUE
           r == inferMemoryType(m, t, V)
       IN  inferMemoryTypes(m, r.ty, vs \ {V}, inferredVarType \/ r.changed)

(***************************************************************************)
(* PHIs.                                                                   *)
(***************************************************************************)
isPhi(m, v) == isInst(m, v) /\ InstOf(m, v).kind = "PhiInst"

\* visited and inputs after collectPHIInputs(visited, inputs, P).
RECURSIVE collectPHIInputs(_, _, _, _)
RECURSIVE collectEntries(_, _, _, _)
collectPHIInputs(m, visited, inputs, P) ==
  IF P \in visited THEN [visited |-> visited, inputs |-> inputs]
  ELSE collectEntries(m, visited \cup {P}, inputs, InstOf(m, P).ops)
collectEntries(m, visited, inputs, entries) ==
  IF entries = <<>> THEN [visited |-> visited, inputs |-> inputs]
  ELSE LET E == Head(entries)
           r == IF isPhi(m, E)
                THEN collectPHIInputs(m, visited, inputs, E)
                ELSE [visited |-> visited, inputs |-> inputs \cup {E}]
       IN  collectEntries(m, r.visited, r.inputs, Tail(entries))

PhiInputs(m, P) == collectPHIInputs(m, {}, {}, P).inputs

inferPhi_NoRecursion(m, t, inst) ==
  IF Len(inst.ops) < 1 THEN [ty |-> t, changed |-> FALSE]
  ELSE LET values == {v \in Range(inst.ops) : ~isPhi(m, v)}
           newTy == UNION {getType(t, v) : v \in values}
       IN  [ty |-> [t EXCEPT ![inst.id] = newTy],
            changed |-> newTy # t[inst.id]
                        \/ \E v \in values : isNoType(getType(t, v))]

inferPhi_PessimisticOnNoType(m, t, inst) ==
  IF Len(inst.ops) < 1 THEN [ty |-> t, changed |-> FALSE]
  ELSE LET values == PhiInputs(m, inst.id)
           newTy == IF \E v \in values : isNoType(getType(t, v)) THEN AnyType
                    ELSE UNION {getType(t, v) : v \in values}
       IN  [ty |-> [t EXCEPT ![inst.id] = newTy],
            changed |-> newTy # t[inst.id]
                        \/ \E v \in values : isNoType(getType(t, v))]

inferPhi_IgnoreNoType(m, t, inst) ==
  IF Len(inst.ops) < 1 THEN [ty |-> t, changed |-> FALSE]
  ELSE LET values == PhiInputs(m, inst.id)
           newTy == UNION {getType(t, v) : v \in values}
       IN  [ty |-> [t EXCEPT ![inst.id] = newTy],
            changed |-> newTy # t[inst.id]]

inferPhi(m, t, inst) ==
  IF Len(inst.ops) < 1 THEN [ty |-> t, changed |-> FALSE]
  ELSE LET values == PhiInputs(m, inst.id)
           newTy == UNION {getType(t, v) : v \in values}
       IN  [ty |-> [t EXCEPT ![inst.id] = newTy],
            changed |-> newTy # t[inst.id]
                        \/ \E v \in values : isNoType(getType(t, v))]

(***************************************************************************)
(* Calls, parameters and return types.                                     *)
(***************************************************************************)
inferBaseCallInst_IgnoreUnknown(t, unk, inst) ==
  IF \A f \in inst.callees : isNoType(t[f]) THEN AnyType
  ELSE UNION {t[f] : f \in inst.callees}

inferBaseCallInst_AlwaysAny(t, unk, inst) == AnyType

inferBaseCallInst_PlainUnion(t, unk, inst) ==
  IF inst.id \in unk THEN AnyType
  ELSE UNION {t[f] : f \in inst.callees}

inferBaseCallInst(t, unk, inst) ==
  IF inst.id \in unk THEN AnyType
  ELSE IF \A f \in inst.callees : isNoType(t[f]) THEN AnyType
  ELSE UNION {t[f] : f \in inst.callees}

\* The type of the i-th actual (from 0) of a call; a missing actual is the
\* literal undefined.  The first operand of a call is the callee.
argType(t, call, i) ==
  IF i < Len(call.ops) - 1 THEN getType(t, call.ops[i + 2])
  ELSE LitType("litUndef")

propagateArgs(m, t, callSites, f) ==
  LET ps == JSDynamicParams(m, f)
      idx(p) == CHOOSE i \in 1..Len(ps) : ps[i] = p
  IN  [v \in DOMAIN t |->
         IF v \in Range(ps)
         THEN IF callSites = {} THEN AnyType
              ELSE UNION {argType(t, c, idx(v) - 1) : c \in callSites}
         ELSE t[v]]

inferParams_AlwaysAny(m, t, unk, f) ==
  [v \in DOMAIN t |->
     IF v \in Range(JSDynamicParams(m, f)) THEN AnyType ELSE t[v]]

inferParams(m, t, unk, f) ==
  IF f \in unk
  THEN [v \in DOMAIN t |->
          IF v \in Range(JSDynamicParams(m, f)) THEN AnyType ELSE t[v]]
  ELSE propagateArgs(m, t, getKnownCallsites(m, f), f)

RECURSIVE returnLoop_LastOnly(_, _, _, _)
returnLoop_LastOnly(t, rets, returnTy, first) ==
  IF rets = <<>> THEN returnTy
  ELSE LET T == getType(t, Head(rets).ops[1])
       IN  IF ~isNoType(T)
           THEN returnLoop_LastOnly(t, Tail(rets), T, FALSE)
           ELSE returnLoop_LastOnly(t, Tail(rets), unionTy(returnTy, T), first)

\* returnTy and first after the loop over the blocks that end in a return.
RECURSIVE returnLoop(_, _, _, _)
returnLoop(t, rets, returnTy, first) ==
  IF rets = <<>> THEN returnTy
  ELSE LET T == getType(t, Head(rets).ops[1])
       IN  IF first /\ ~isNoType(T)
           THEN returnLoop(t, Tail(rets), T, FALSE)
           ELSE returnLoop(t, Tail(rets), unionTy(returnTy, T), first)

inferredReturnType_NoGeneratorCase(m, t, d, f) ==
  returnLoop(t, SelectSeq(Body(m, f), LAMBDA i : i.kind = "ReturnInst"),
             d, TRUE)

inferredReturnType(m, t, d, f) ==
  IF isGeneratorInner(m, f) THEN AnyType
  ELSE returnLoop(t, SelectSeq(Body(m, f), LAMBDA i : i.kind = "ReturnInst"),
                  d, TRUE)

inferFunctionReturnType(m, t, d, f) ==
  LET returnTy == inferredReturnType(m, t, d, f)
  IN  [ty |-> IF returnTy # t[f] THEN [t EXCEPT ![f] = returnTy] ELSE t,
       changed |-> returnTy # t[f]]

(***************************************************************************)
(* The per-kind dispatch of inferInstruction.                              *)
(***************************************************************************)
isOwnedProperty(m, I, prop) ==
  \E J \in Users(m, I) :
    J.kind \in StoreOwnPropertyKinds /\ J.ops[2] = I /\ prop = J.ops[3]

\* first, retTy and unique after the loop over the stores of a receiver.
RECURSIVE storeLoop_AnyProperty(_, _, _, _)
storeLoop_AnyProperty(t, prop, stores, acc) ==
  IF stores = {} THEN acc
  ELSE LET S == CHOOSE x \in stores : TRUE
           T == getType(t, S.ops[1])
       IN  storeLoop_AnyProperty(t, prop, stores \ {S},
             IF acc.first
             THEN [acc EXCEPT !.first = FALSE, !.retTy = T]
             ELSE [acc EXCEPT !.retTy = unionTy(acc.retTy, T),
                              !.unique = FALSE])

RECURSIVE storeLoop(_, _, _, _)
storeLoop(t, prop, stores, acc) ==
  IF stores = {} THEN acc
  ELSE LET S == CHOOSE x \in stores : TRUE
           T == getType(t, S.ops[1])
       IN  IF prop # S.ops[3] THEN storeLoop(t, prop, stores \ {S}, acc)
           ELSE storeLoop(t, prop, stores \ {S},
                  IF acc.first
                  THEN [acc EXCEPT !.first = FALSE, !.retTy = T]
                  ELSE [acc EXCEPT !.retTy = unionTy(acc.retTy, T),
                                   !.unique = FALSE])

\* The same after the loop over the receivers; bail is set where the code
\* returns AnyType from inside the loop.
RECURSIVE receiverLoop(_, _, _, _, _, _)
receiverLoop(m, t, c, inst, Rs, acc) ==
  IF Rs = {} THEN acc
  ELSE LET R == CHOOSE x \in Rs : TRUE
       IN  IF R \in c.stores \/ ~isOwnedProperty(m, R, inst.ops[2])
           THEN [acc EXCEPT !.bail = TRUE]
           ELSE receiverLoop(m, t, c, inst, Rs \ {R},
                             storeLoop(t, inst.ops[2], getKnownStores(m, R),
                                       acc))

\* The type inferLoadPropertyInst returns and whether it counts the load in
\* UniquePropertyValue.  retTy is assigned before it is read.
inferLoadPropertyInst(m, t, c, inst) ==
  LET start == [first |-> TRUE, retTy |-> NoType, unique |-> TRUE,
                bail |-> FALSE]
      acc == IF inst.id \in c.receivers THEN [start EXCEPT !.bail = TRUE]
             ELSE receiverLoop(m, t, c, inst, getKnownReceivers(m, inst),
                               start)
  IN  IF acc.bail THEN [ty |-> AnyType, counted |-> FALSE]
      ELSE [ty |-> IF ~acc.first THEN acc.retTy ELSE AnyType,
            counted |-> ~acc.first /\ acc.unique]

inferAllocStackInst(m, t, inst) ==
  IF Users(m, inst.id) # {} THEN inferMemoryLocationType(m, t, inst.id)
  ELSE AnyType

SingleOperandKinds ==
  {"LoadStackInst", "MovInst", "ImplicitMovInst", "LoadFrameInst",
   "HBCLoadConstInst", "HBCSpillMovInst", "LoadParamInst", "ThrowIfEmptyInst"}

inferKind(m, t, c, inst) ==
  CASE inst.kind \in UnaryKinds ->
         inferUnaryOperatorInst(inst.kind, getType(t, inst.ops[1]))
    [] inst.kind \in BinaryKinds ->
         inferBinaryInst(inst.kind, getType(t, inst.ops[1]),
                         getType(t, inst.ops[2]))
    [] inst.kind \in SingleOperandKinds -> getType(t, inst.ops[1])
    [] inst.kind = "AllocStackInst" -> inferAllocStackInst(m, t, inst)
    [] inst.kind \in CallKinds -> inferBaseCallInst(t, c.callees, inst)
    [] inst.kind = "LoadPropertyInst" ->
         inferLoadPropertyInst(m, t, c, inst).ty
    [] inst.kind = "HBCCreateEnvironmentInst" -> Environment
    [] inst.kind = "HBCLoadFromEnvironmentInst" -> AnyType
    [] inst.kind \in InherentKinds -> getInherentType(inst.kind)
    [] inst.kind = "AllocObjectInst" -> Object
    [] inst.kind = "ResumeGeneratorInst" -> AnyType
    [] inst.kind \in NoOutputKinds -> NoType

\* The annotations after inferInstruction(inst) and what it returns.
\* inferInstruction(inst) reaches the per-kind dispatch.
dispatched(t, inst) ==
  /\ inst.kind # "PhiInst"
  /\ \A i \in 1..Len(inst.ops) : ~isNoType(getType(t, inst.ops[i]))

\* UniquePropertyValue after inferInstruction(inst).
countUnique(m, t, c, inst, n) ==
  IF /\ dispatched(t, inst)
     /\ inst.kind = "LoadPropertyInst"
     /\ inferLoadPropertyInst(m, t, c, inst).counted
     /\ n < MaxCount
  THEN n + 1 ELSE n

\* NumTI after inferInstruction(inst).
countInferred(m, t, c, inst, n) ==
  IF /\ dispatched(t, inst)
     /\ inferKind(m, t, c, inst) # t[inst.id]
     /\ n < MaxCount
  THEN n + 1 ELSE n

inferInstruction_NoSkip(m, t, c, inst) ==
  IF inst.kind = "PhiInst" THEN inferPhi(m, t, inst)
  ELSE LET inferredTy == inferKind(m, t, c, inst)
       IN  [ty |-> IF inferredTy # t[inst.id]
                   THEN [t EXCEPT ![inst.id] = inferredTy] ELSE t,
            changed |-> inferredTy # t[inst.id]]

inferInstruction(m, t, c, inst) ==
  IF inst.kind = "PhiInst" THEN inferPhi(m, t, inst)
  ELSE IF \E i \in 1..Len(inst.ops) : isNoType(getType(t, inst.ops[i]))
  THEN [ty |-> t, changed |-> TRUE]
  ELSE LET inferredTy == inferKind(m, t, c, inst)
       IN  [ty |-> IF inferredTy # t[inst.id]
                   THEN [t EXCEPT ![inst.id] = inferredTy] ELSE t,
            changed |-> inferredTy # t[inst.id]]

(***************************************************************************)
(* Clearing the types and the pre-pass guard.                              *)
(***************************************************************************)
\* prePassTypes_.try_emplace(v, t[v]) for every v of vs.
tryEmplaceAll(pre, t, vs) ==
  [v \in DOMAIN pre \cup vs |-> IF v \in DOMAIN pre THEN pre[v] ELSE t[v]]

clearedType(m, v) ==
  IF isInst(m, v) /\ InstOf(m, v).kind \in InherentKinds
  THEN getInherentType(InstOf(m, v).kind)
  ELSE NoType

clearTypesInFunction_WholeModule(m, t, f) ==
  [v \in DOMAIN t |-> clearedType(m, v)]

clearTypesInFunction(m, t, f) ==
  [v \in DOMAIN t |-> IF v \in ValuesOf(m, f) THEN clearedType(m, v) ELSE t[v]]

checkAndSetPrePassType_Keep(pre, t, v) == t[v]

checkAndSetPrePassType(pre, t, v) ==
  IF v \notin DOMAIN pre THEN t[v]
  ELSE IF pre[v] # t[v] THEN intersectTy(pre[v], t[v])
  ELSE t[v]

\* The values the end of runOnFunction hands to checkAndSetPrePassType.
guardedValues(m, f) ==
  InstIds(m, f) \cup {f} \cup Range(JSDynamicParams(m, f))
  \cup (IF ~isGlobalScope(m, f) THEN Variables(m, f) ELSE {})

ensureNotWidened(m, pre, t, f) ==
  [v \in DOMAIN t |->
     IF v \in guardedValues(m, f) THEN checkAndSetPrePassType(pre, t, v)
     ELSE t[v]]

\* The debug assertion at the end of runOnFunction.
outputsTyped(m, t, f) ==
  \A i \in Insts(m, f) : isNoType(t[i.id]) # hasOutput(i.kind)

(***************************************************************************)
(* The pass as a state machine.                                            *)
(***************************************************************************)
\* The annotations the earlier passes left: an instruction without output
\* has no type, every other value has AnyType or, for the narrowed ones, a
\* narrower type.
prePassAnnotation(m, narrowed, Q) ==
  [v \in AllValues(m) |->
     IF isInst(m, v) /\ ~hasOutput(InstOf(m, v).kind) THEN NoType
     ELSE IF v \in narrowed THEN Q
     ELSE AnyType]

OpIdle ==
  /\ opKind = "none"
  /\ opL = NoType
  /\ opR = NoType
  /\ opRes = NoType

Init ==
  /\ mod \in ModuleNames
  /\ rev \in (IF Len(Funcs(mod)) > 1 THEN BOOLEAN ELSE {FALSE})
  /\ unkSites \in SUBSET ParamFuncs(mod)
  /\ unkCallees \in SUBSET CallIds(mod)
  /\ unkReceivers \in SUBSET LoadPropertyIds(mod)
  /\ unkStores \in SUBSET AllocObjectIds(mod)
  /\ defTy \in {NoType, AnyType}
  /\ \E narrowed \in SUBSET AllValues(mod), Q \in NarrowTypes :
       /\ Cardinality(narrowed) <= MaxNarrowed
       /\ ty = prePassAnnotation(mod, narrowed, Q)
  /\ prePassTypes = <<>>
  /\ pc = "idle"
  /\ run = 0
  /\ fi = 1
  /\ ii = 1
  /\ localChanged = FALSE
  /\ iter = 0
  /\ entryTy = ty
  /\ hist = <<>>
  /\ UniquePropertyValue = 0
  /\ NumTI = 0
  /\ changed = FALSE
  /\ moduleEntryTy = ty
  /\ OpIdle

\* What runOnFunction returns: "Since we always infer from scratch, the
\* inference has always changed".
runOnFunctionResult_Differs(before, after) == before # after

runOnFunctionResult(before, after) == TRUE

bump(n) == IF n < MaxIter THEN n + 1 ELSE n

\* TypeInference::runOnModule: a fresh TypeInferenceImpl, then the first
\* function; a module without functions is done at once.
StartModule ==
  /\ pc = "idle"
  /\ run < MaxRuns
  /\ run' = run + 1
  /\ prePassTypes' = <<>>
  /\ changed' = FALSE
  /\ moduleEntryTy' = ty
  /\ fi' = 1
  /\ IF Len(Order) > 0
     THEN pc' = "clear" /\ hist' = hist
     ELSE pc' = "idle" /\ hist' = Append(hist, ty)
  /\ UNCHANGED <<inputVars, ty, ii, localChanged, iter, entryTy,
                 UniquePropertyValue, NumTI, opVars>>

ClearTypes ==
  /\ pc = "clear"
  /\ entryTy' = ty
  /\ prePassTypes' = tryEmplaceAll(prePassTypes, ty, ValuesOf(mod, F))
  /\ ty' = clearTypesInFunction(mod, ty, F)
  /\ iter' = 0
  /\ pc' = "params"
  /\ UNCHANGED <<inputVars, run, fi, ii, localChanged, hist, resultVars,
                 opVars>>

InferParams ==
  /\ pc = "params"
  /\ ty' = inferParams(mod, ty, unkSites, F)
  /\ pc' = "inst"
  /\ ii' = 1
  /\ localChanged' = FALSE
  /\ iter' = bump(iter)
  /\ UNCHANGED <<inputVars, prePassTypes, run, fi, entryTy, hist,
                 resultVars, opVars>>

\* One call of inferInstruction in the sweep over the instructions of F.
InferInstruction ==
  /\ pc = "inst"
  /\ LET r == inferInstruction(mod, ty, cgp, Body(mod, F)[ii])
     IN  /\ ty' = r.ty
         /\ localChanged' = (localChanged \/ r.changed)
  /\ UniquePropertyValue' =
       countUnique(mod, ty, cgp, Body(mod, F)[ii], UniquePropertyValue)
  /\ NumTI' = countInferred(mod, ty, cgp, Body(mod, F)[ii], NumTI)
  /\ IF ii < Len(Body(mod, F))
     THEN ii' = ii + 1 /\ pc' = "inst"
     ELSE ii' = 1 /\ pc' = "ret"
  /\ UNCHANGED <<inputVars, prePassTypes, run, fi, iter, entryTy, hist,
                 changed, moduleEntryTy, opVars>>

InferReturnType ==
  /\ pc = "ret"
  /\ LET r == inferFunctionReturnType(mod, ty, defTy, F)
     IN  /\ ty' = r.ty
         /\ localChanged' = (localChanged \/ r.changed)
  /\ pc' = "vars"
  /\ UNCHANGED <<inputVars, prePassTypes, run, fi, ii, iter, entryTy, hist,
                 resultVars, opVars>>

\* inferMemoryType on the variables of F, then the loop condition.
InferVariables ==
  /\ pc = "vars"
  /\ ty' = inferMemoryTypes(mod, ty, Variables(mod, F), FALSE).ty
  /\ IF localChanged
        \/ inferMemoryTypes(mod, ty, Variables(mod, F), FALSE).changed
     THEN /\ pc' = "inst"
          /\ iter' = bump(iter)
     ELSE /\ pc' = "guard"
          /\ iter' = iter
  /\ localChanged' = FALSE
  /\ UNCHANGED <<inputVars, prePassTypes, run, fi, ii, entryTy, hist,
                 resultVars, opVars>>

EnsureNotWidened ==
  /\ pc = "guard"
  /\ ty' = ensureNotWidened(mod, prePassTypes, ty, F)
  /\ pc' = "validate"
  /\ UNCHANGED <<inputVars, prePassTypes, run, fi, ii, localChanged, iter,
                 entryTy, hist, resultVars, opVars>>

\* runOnFunction returns; runOnModule goes on to the next function, or
\* returns after the last.
ReturnFromFunction ==
  /\ pc = "validate"
  /\ changed' = (changed \/ runOnFunctionResult(entryTy, ty))
  /\ IF fi < Len(Funcs(mod))
     THEN /\ fi' = fi + 1
          /\ pc' = "clear"
          /\ hist' = hist
     ELSE /\ fi' = fi
          /\ pc' = "idle"
          /\ hist' = Append(hist, ty)
  /\ UNCHANGED <<inputVars, ty, prePassTypes, run, ii, localChanged, iter,
                 entryTy, UniquePropertyValue, NumTI, moduleEntryTy, opVars>>

\* A build with assertions stops on an instruction typed against its kind.
AssertionFails ==
  /\ pc = "validate"
  /\ ~outputsTyped(mod, ty, F)
  /\ pc' = "aborted"
  /\ UNCHANGED <<inputVars, ty, prePassTypes, run, fi, ii, localChanged,
                 iter, entryTy, hist, resultVars, opVars>>

Next ==
  \/ StartModule
  \/ ClearTypes
  \/ InferParams
  \/ InferInstruction
  \/ InferReturnType
  \/ InferVariables
  \/ EnsureNotWidened
  \/ ReturnFromFunction
  \/ AssertionFails

Spec == Init /\ [][Next]_vars

\* The pass is one thread that always takes its next step.
FairSpec == Spec /\ WF_vars(Next)

(***************************************************************************)
(* The operator rules on their own: one step applies the rule of one unary *)
(* or binary operator to operand types that reach the dispatch (no operand *)
(* is NoType there).                                                       *)
(***************************************************************************)
CoreTags == {"Undefined", "String", "Number", "BigInt", "Object"}
OperandTypes == ((SUBSET CoreTags) \ {NoType}) \cup {AnyType}

OpInit ==
  /\ mod = "gen"
  /\ rev = FALSE
  /\ unkSites = {}
  /\ unkCallees = {}
  /\ unkReceivers = {}
  /\ unkStores = {}
  /\ defTy = AnyType
  /\ ty = prePassAnnotation("gen", {}, Number)
  /\ prePassTypes = <<>>
  /\ pc = "rules"
  /\ run = 0
  /\ fi = 1
  /\ ii = 1
  /\ localChanged = FALSE
  /\ iter = 0
  /\ entryTy = ty
  /\ hist = <<>>
  /\ UniquePropertyValue = 0
  /\ NumTI = 0
  /\ changed = FALSE
  /\ moduleEntryTy = ty
  /\ OpIdle

ApplyUnaryOperator ==
  /\ pc = "rules"
  /\ opKind = "none"
  /\ \E k \in UnaryKinds, T \in OperandTypes :
       /\ opKind' = k
       /\ opL' = T
       /\ opR' = NoType
       /\ opRes' = inferUnaryOperatorInst(k, T)
  /\ UNCHANGED passVars

ApplyBinaryOperator ==
  /\ pc = "rules"
  /\ opKind = "none"
  /\ \E k \in BinaryKinds, L \in OperandTypes, R \in OperandTypes :
       /\ opKind' = k
       /\ opL' = L
       /\ opR' = R
       /\ opRes' = inferBinaryInst(k, L, R)
  /\ UNCHANGED passVars

OpNext == ApplyUnaryOperator \/ ApplyBinaryOperator

OpSpec == OpInit /\ [][OpNext]_vars

(***************************************************************************)
(* Properties of the operator rules.                                       *)
(***************************************************************************)
\* BigInt when both operand types hold the BigInt tag, nothing otherwise.
BothMayBeBigInt(L, R) ==
  IF "BigInt" \in L /\ "BigInt" \in R THEN {"BigInt"} ELSE {}

\* The result shape S for two Numbers, BigInt for two BigInts, otherwise S
\* with BigInt added when both operands can be BigInt.
ArithmeticRule(L, R, S) ==
  IF L = {"Number"} /\ R = {"Number"} THEN S
  ELSE IF L = {"BigInt"} /\ R = {"BigInt"} THEN {"BigInt"}
  ELSE S \cup BothMayBeBigInt(L, R)

\* C7: the operators -, *, /, **, << and >> follow the arithmetic rule with
\* result shape Number and % follows it with result shape Int32; >>> always
\* gives Uint32; a comparison, in or instanceof always gives Boolean.
C7_BinaryArithmeticRule ==
  /\ opKind \in ArithKinds => opRes = ArithmeticRule(opL, opR, {"Number"})
  /\ opKind = "BinaryModuloInst" => opRes = ArithmeticRule(opL, opR, Int32)
  /\ opKind = "BinaryUnsignedRightShiftInst" => opRes = Uint32
  /\ opKind \in CompareKinds => opRes = {"Boolean"}

C7_Witness ==
  /\ opKind = "BinarySubtractInst"
  /\ opL = AnyType
  /\ opR = {"BigInt", "String"}
  /\ opRes = {"Number", "BigInt"}

NoUserCode(T) == T \cap {"Object", "Closure", "RegExp", "Arguments", "Array"} = {}

\* C9: for +, in this order: an operand that is exactly String gives
\* String; two Numbers give Number; two BigInts give BigInt; otherwise the
\* result is Number, with BigInt when both operands can be BigInt, and with
\* String unless both operands are side-effect-free and cannot be String.
C9_AdditionRule ==
  opKind = "BinaryAddInst" =>
    LET numeric == {"Number"} \cup BothMayBeBigInt(opL, opR)
        noString == /\ NoUserCode(opL) /\ NoUserCode(opR)
                    /\ "String" \notin opL /\ "String" \notin opR
    IN  opRes =
          IF opL = {"String"} \/ opR = {"String"} THEN {"String"}
          ELSE IF opL = {"Number"} /\ opR = {"Number"} THEN {"Number"}
          ELSE IF opL = {"BigInt"} /\ opR = {"BigInt"} THEN {"BigInt"}
          ELSE IF noString THEN numeric
          ELSE numeric \cup {"String"}

C9_Witness ==
  /\ opKind = "BinaryAddInst"
  /\ \/ opL = AnyType /\ opR = AnyType
        /\ opRes = {"Number", "BigInt", "String"}
     \/ opL = {"Number"} /\ opR = {"String"} /\ opRes = {"String"}

\* C10: unary minus, ++ and -- (result shape Number) and ~ (result shape
\* Int32) give the shape for a Number, BigInt for a BigInt, otherwise the
\* shape with BigInt added exactly when the operand can be BigInt; void
\* gives Undefined, typeof String and ! Boolean.
C10_UnaryRule ==
  LET arith(S) ==
        IF opL = {"Number"} THEN S
        ELSE IF opL = {"BigInt"} THEN {"BigInt"}
        ELSE IF "BigInt" \in opL THEN S \cup {"BigInt"}
        ELSE S
  IN  /\ opKind \in UnaryArithKinds => opRes = arith({"Number"})
      /\ opKind = "UnaryTildeInst" => opRes = arith(Int32)
      /\ opKind = "UnaryVoidInst" => opRes = {"Undefined"}
      /\ opKind = "UnaryTypeofInst" => opRes = {"String"}
      /\ opKind = "UnaryBangInst" => opRes = {"Boolean"}

C10_Witness ==
  /\ opKind = "UnaryTildeInst"
  /\ opL = {"BigInt", "String"}
  /\ opRes = {"Number", "BigInt"}

(***************************************************************************)
(* Properties of the pass.                                                 *)
(***************************************************************************)
\* runOnFunction(F) has done all its work and is about to return.
Finished == pc = "validate"
\* The fixed-point loop of runOnFunction(F) has just exited.
LoopExited == pc = "guard"

GlobalVariables(m, f) == IF isGlobalScope(m, f) THEN Variables(m, f) ELSE {}

C2_OutputDiscipline ==
  Finished => \A i \in Insts(mod, F) : (ty[i.id] = {}) <=> ~hasOutput(i.kind)

\* C3: the fixed-point loop of every runOnFunction exits.
C3_LoopExits == (pc = "params") ~> LoopExited

\* A function is self-contained when its inference reads no annotation of
\* another function: its call sites and the callees of its calls are
\* unknown or lie in it, and its operands and its variables' users are its
\* own.
SelfContained(m, f) ==
  /\ f \in unkSites \/ getKnownCallsites(m, f) \subseteq Insts(m, f)
  /\ \A i \in Insts(m, f) :
       /\ i.kind \in CallKinds => i.id \in unkCallees \/ i.callees \subseteq {f}
       /\ Range(i.ops) \subseteq ValuesOf(m, f) \cup Literals
  /\ \A v \in Variables(m, f) : Users(m, v) \subseteq Insts(m, f)

\* C4 as claimed: a second runOnModule leaves every annotation as the first
\* left it.
C4_Idempotence == Len(hist) >= 2 => hist[2] = hist[1]

\* C4 as amended: every further runOnModule leaves the annotations of each
\* self-contained function as the run before left them.
C4_IdempotenceOfSelfContained ==
  \A k \in 2..Len(hist) :
    \A f \in FuncSet(mod) :
      SelfContained(mod, f) =>
        \A v \in ValuesOf(mod, f) : hist[k][v] = hist[k - 1][v]

\* The second run changed the caller while the callee, self-contained, kept
\* its annotations.
C4_Witness ==
  /\ Len(hist) >= 2
  /\ mod = "calls"
  /\ SelfContained(mod, "G")
  /\ hist[2]["F.c"] # hist[1]["F.c"]
  /\ \A v \in ValuesOf(mod, "G") : hist[2][v] = hist[1][v]

\* The PHIs reachable from a set of PHIs through PHI operands, and the
\* values that are not PHIs among the operands of those.
RECURSIVE PhiClosure(_, _)
PhiClosure(m, ps) ==
  LET more == ps \cup {v \in UNION {Range(InstOf(m, p).ops) : p \in ps} :
                         isPhi(m, v)}
  IN  IF more = ps THEN ps ELSE PhiClosure(m, more)
NonPhiInputs(m, P) ==
  {v \in UNION {Range(InstOf(m, p).ops) : p \in PhiClosure(m, {P})} :
     ~isPhi(m, v)}
PhiEquation(m, t, f) ==
  \A i \in Insts(m, f) :
    i.kind = "PhiInst" =>
      t[i.id] = UNION {getType(t, v) : v \in NonPhiInputs(m, i.id)}

\* C5 as claimed: after the pass the type of every PHI is the union of the
\* types of the non-PHI values reachable from it through PHI operands.
C5_PhiFixpointAfterPass == Finished => PhiEquation(mod, ty, F)

\* C5 as amended: the equation holds when the fixed-point loop exits,
\* before the intersection with the pre-pass types.
C5_PhiFixpointAtLoopExit == LoopExited => PhiEquation(mod, ty, F)

C5_Witness ==
  /\ LoopExited
  /\ mod = "phis"
  /\ ty["F.phi1"] = {"String", "Number", "BigInt"}
  /\ ty["F.phi2"] = ty["F.phi1"]

ReturnCovered(m, t, f) ==
  ~isGeneratorInner(m, f) =>
    \A i \in Insts(m, f) :
      i.kind = "ReturnInst" => getType(t, i.ops[1]) \subseteq t[f]

\* C6 as claimed: after the pass the return type of a function that is not
\* a generator-inner function holds the type of every returned value.
C6_ReturnFixpointAfterPass == Finished => ReturnCovered(mod, ty, F)

\* C6 as amended: it does when the fixed-point loop exits, before the
\* intersection with the pre-pass types.
C6_ReturnFixpointAtLoopExit == LoopExited => ReturnCovered(mod, ty, F)

C6_Witness ==
  /\ LoopExited
  /\ mod = "mem"
  /\ "F" \notin unkSites
  /\ ty["F.lp"] = AnyType
  /\ ty["F.typeof"] = String
  /\ ty["F"] = AnyType

(***************************************************************************)
(* Properties of single steps of the pass.                                 *)
(***************************************************************************)
\* The instruction the sweep is about to hand to inferInstruction.
Current == Body(mod, F)[ii]
\* The next step is an inferInstruction that reaches the dispatch.
Dispatching == pc = "inst" /\ dispatched(ty, Current)

CallReturnTypes(t, CI) == UNION {t[f] : f \in CI.callees}

Actual(t, call, i) ==
  IF Len(call.ops) >= i + 1 THEN getType(t, call.ops[i + 1]) ELSE Undefined

ActualsUnion(m, t, f, i) ==
  UNION {Actual(t, call, i) : call \in getKnownCallsites(m, f)}

QualifyingStores(m, LI) ==
  {S \in UNION {getKnownStores(m, R) : R \in getKnownReceivers(m, LI)} :
     S.ops[3] = LI.ops[2]}
\* No StoreOwnProperty on R writes prop.
NotOwned(m, R, prop) ==
  ~\E S \in AllInsts(m) :
     S.kind \in StoreOwnPropertyKinds /\ S.ops[2] = R /\ S.ops[3] = prop
PropertyLoadRule(m, t, LI) ==
  IF \/ LI.id \in unkReceivers
     \/ \E R \in getKnownReceivers(m, LI) :
          R \in unkStores \/ NotOwned(m, R, LI.ops[2])
  THEN AnyType
  ELSE IF QualifyingStores(m, LI) = {} THEN AnyType
  ELSE UNION {getType(t, S.ops[1]) : S \in QualifyingStores(m, LI)}

C14_UniquePropertyValueCountedOnce ==
  pc = "idle" /\ run = 1 /\ unkReceivers = {} /\ unkStores = {} =>
    /\ mod = "prop" => UniquePropertyValue = 1
    /\ mod = "props" => UniquePropertyValue = 0

\* The type the rule gives a variable or a stack slot.
SlotRule(m, t, v) ==
  IF \E u \in Users(m, v) :
       u.kind \notin {"StoreFrameInst", "StoreStackInst", "LoadFrameInst",
                      "LoadStackInst"}
  THEN AnyType
  ELSE UNION {getType(t, u.ops[1]) :
                u \in {w \in Users(m, v) :
                         w.kind \in {"StoreFrameInst", "StoreStackInst"}}}

\* C15: inferMemoryType gives every variable of F the type of the rule and
\* reports a change exactly when that differs from the type it had (with no
\* other change the loop goes round again exactly then); a stack slot with
\* users gets the type of the rule as well.
C15_MemorySlotRule ==
  [][/\ pc = "vars" =>
         /\ \A v \in Variables(mod, F) : ty'[v] = SlotRule(mod, ty, v)
         /\ ~localChanged =>
              (pc' = "inst" <=>
                 \E v \in Variables(mod, F) : SlotRule(mod, ty, v) # ty[v])
     /\ (Dispatching /\ Current.kind = "AllocStackInst"
           /\ Users(mod, Current.id) # {}) =>
          ty'[Current.id] = SlotRule(mod, ty, Current.id)]_vars

\* G's variable got the type of the one value stored into it, and the
\* loop went round again.
C15_Witness ==
  /\ mod = "calls"
  /\ F = "G"
  /\ pc = "inst"
  /\ iter = 2
  /\ ty["G.lp"] = Number
  /\ ty["G.w"] = Number

\* runOnModule has returned.
Returned == pc = "idle" /\ run >= 1

\* C16 as claimed: runOnModule returns true exactly when some annotation
\* differs from what it was before the pass.
C16_ResultTellsChange == Returned => (changed <=> ty # moduleEntryTy)

\* C16 as amended: runOnModule returns true exactly when the module has a
\* function.
C16_ResultTellsFunctions == Returned => (changed <=> Len(Funcs(mod)) > 0)

\* A run that left every annotation as it was returned true.
C16_Witness == Returned /\ changed /\ ty = moduleEntryTy

\* The annotations before the pass are AnyType on every value with a type.
AnyPrePass == entryTy = prePassAnnotation(mod, {}, Number)

\* C17: on the loop function with pre-pass types AnyType the fixed-point
\* loop never starts a fourth iteration, and when it exits phi and add are
\* both Number.
C17_LoopPhiConverges ==
  mod = "loop" /\ pc \in {"inst", "ret", "vars", "guard"} /\ AnyPrePass =>
    /\ iter <= 3
    /\ LoopExited => ty["F.phi"] = Number /\ ty["F.add"] = Number

C17_Witness ==
  /\ mod = "loop"
  /\ AnyPrePass
  /\ LoopExited
  /\ iter = 2
  /\ ty["F.phi"] = Number
  /\ ty["F.add"] = Number

\* C18: an inferInstruction that reaches the dispatch leaves NoType only on
\* an instruction without output.
C18_DispatchTypesOutputs ==
  [][Dispatching /\ hasOutput(Current.kind) =>
       ~isNoType(ty'[Current.id])]_vars

\* C19 as claimed: when runOnFunction(F) finishes on a generator-inner
\* function, the return type of F is AnyType.
C19_GeneratorReturnsAny ==
  Finished /\ isGeneratorInner(mod, F) => ty[F] = AnyType

\* C19 as amended: it is AnyType when the fixed-point loop exits, and the
\* pre-pass return type of F when runOnFunction(F) finishes.
C19_GeneratorReturnsPrePass ==
  isGeneratorInner(mod, F) =>
    /\ LoopExited => ty[F] = AnyType
    /\ Finished => ty[F] = entryTy[F]

\* The generator-inner function, which returns a number, entered with the
\* return type String and left with it.
C19_Witness ==
  /\ mod = "gen"
  /\ Finished
  /\ entryTy["F"] = String
  /\ ty["F"] = String

\* Some invocation of runOnModule left every annotation as it found it.
Converged == \E k \in 2..Len(hist) : hist[k] = hist[k - 1]

\* C20: repeated invocations of runOnModule reach an invocation that leaves
\* every annotation unchanged, if the debug assertion does not stop the pass
\* before.
C20_OuterConvergence == <>(Converged \/ pc = "aborted")

\* The next step is inferInstruction on a PHI, that is, inferPhi.
PhiStep == pc = "inst" /\ Current.kind = "PhiInst"
\* The union of the types of the non-PHI values reachable from P through
\* PHI operands.
PhiUnion(m, t, P) == UNION {getType(t, v) : v \in NonPhiInputs(m, P)}
\* The next step is inferInstruction on an instruction that is not a PHI
\* and has an operand without type.
Pending ==
  /\ pc = "inst"
  /\ Current.kind # "PhiInst"
  /\ \E i \in 1..Len(Current.ops) : isNoType(getType(ty, Current.ops[i]))

\* C21: inferPhi on a PHI with entries sets its type, and no other, to the
\* union of the types of the non-PHI values reachable through PHI operands
\* and returns true exactly when one of these has NoType or the type of the
\* PHI changed; a PHI without entries is left alone and false is returned.
C21_PhiStep ==
  [][PhiStep =>
       IF Len(Current.ops) >= 1
       THEN /\ ty'[Current.id] = PhiUnion(mod, ty, Current.id)
            /\ \A v \in AllValues(mod) \ {Current.id} : ty'[v] = ty[v]
            /\ ~localChanged =>
                 (localChanged' <=>
                    \/ \E v \in NonPhiInputs(mod, Current.id) :
                         isNoType(getType(ty, v))
                    \/ PhiUnion(mod, ty, Current.id) # ty[Current.id])
       ELSE ty' = ty /\ localChanged' = localChanged]_vars

\* In a second iteration the PHI kept its type Number and still reported a
\* change, for its input F.ls has no type.
C21_Witness ==
  /\ mod = "edge"
  /\ pc = "inst"
  /\ ii = 3
  /\ iter = 2
  /\ localChanged
  /\ ty["F.phi0"] = NoType
  /\ ty["F.phi"] = Number
  /\ ty["F.ls"] = NoType

\* C22: inferInstruction on an instruction that is not a PHI and has an
\* operand without type returns true and changes no annotation and neither
\* counter; a PHI with such an operand is typed all the same.
C22_PendingOperandStep ==
  [][/\ Pending =>
         /\ ty' = ty
         /\ localChanged'
         /\ NumTI' = NumTI
         /\ UniquePropertyValue' = UniquePropertyValue
     /\ (/\ PhiStep
         /\ \E i \in 1..Len(Current.ops) :
              isNoType(getType(ty, Current.ops[i]))) =>
          ty'[Current.id] = PhiUnion(mod, ty, Current.id)]_vars

\* The load of the parameter was skipped: the parameter has no type.
C22_Witness ==
  /\ mod = "rec"
  /\ "F" \notin unkSites
  /\ pc = "inst"
  /\ ii = 2
  /\ iter = 1
  /\ localChanged
  /\ NumTI = 0
  /\ ty["F.p0"] = NoType
  /\ ty["F.lp"] = NoType

\* C23: a call that reaches the dispatch never gets NoType, and gets
\* AnyType when its callees are known and none of them has a return type.
C23_CallResultsTyped ==
  [][Dispatching /\ Current.kind \in CallKinds =>
       /\ ~isNoType(ty'[Current.id])
       /\ (/\ Current.id \notin unkCallees
           /\ \A f \in Current.callees : isNoType(ty[f])) =>
            ty'[Current.id] = AnyType]_vars

\* The call without known callee was typed AnyType.
C23_Witness ==
  /\ mod = "nocallee"
  /\ "F.c" \notin unkCallees
  /\ pc = "inst"
  /\ ii = 2
  /\ iter = 1
  /\ ty["F.c"] = AnyType

\* C24: no step of runOnFunction(F) changes the annotation of a value of
\* another function, and no step between inferParams and the intersection
\* with the pre-pass types changes the type of a parameter of F.
C24_PerFunctionFrame ==
  [][/\ pc \in {"clear", "params", "inst", "ret", "vars", "guard"} =>
         \A v \in AllValues(mod) \ ValuesOf(mod, F) : ty'[v] = ty[v]
     /\ pc \in {"inst", "ret", "vars"} =>
         \A p \in Range(JSDynamicParams(mod, F)) : ty'[p] = ty[p]]_vars

\* runOnFunction(G) changed annotations of G, among them its parameter, and
\* none of F.
C24_Witness ==
  /\ mod = "calls"
  /\ F = "G"
  /\ Finished
  /\ entryTy["G.p0"] = AnyType
  /\ ty["G.p0"] = Number
  /\ \A v \in ValuesOf(mod, "F") : ty[v] = entryTy[v]

====
